---- MODULE Spec2Model ----
(***************************************************************************)
(* The task-to-rule compiler benchmarks/mk_tasks.py: a task catalog is     *)
(* compiled into a makefile fragment written to standard output, one rule  *)
(* per task, and the generated rules are then run by make.                 *)
(*                                                                         *)
(* Text is modelled as text: every Python str is a TLA+ string, an         *)
(* f-string is a concatenation, and standard output is the sequence of     *)
(* lines written so far (print(s) writes s followed by a line break, so it *)
(* appends the lines of s).                                                *)
(***************************************************************************)
EXTENDS Integers, Sequences, FiniteSets

(***************************************************************************)
(* Bounds of the model.                                                    *)
(***************************************************************************)
\* The longest task list of a catalog.
MaxTasks == 2

(***************************************************************************)
(* str operations.                                                         *)
(***************************************************************************)
Char(s, i) == SubSeq(s, i, i)

\* str.startswith
StartsWith(s, p) == Len(s) >= Len(p) /\ SubSeq(s, 1, Len(p)) = p

\* str.endswith
EndsWith(s, p) == Len(s) >= Len(p) /\ SubSeq(s, Len(s) - Len(p) + 1, Len(s)) = p

\* p in s
Contains(s, p) == \E i \in 1..(Len(s) - Len(p) + 1) : SubSeq(s, i, i + Len(p) - 1) = p

\* s.find(p) + 1: the first place of p in s, 0 when there is none.
Find(s, p) ==
    LET at == {i \in 1..(Len(s) - Len(p) + 1) : SubSeq(s, i, i + Len(p) - 1) = p}
    IN  IF at = {} THEN 0 ELSE CHOOSE i \in at : \A j \in at : i <= j

LowerLetters == "abcdefghijklmnopqrstuvwxyz"
UpperLetters == "ABCDEFGHIJKLMNOPQRSTUVWXYZ"

MapChar(c, from, to) ==
    LET k == Find(from, c) IN IF k = 0 THEN c ELSE Char(to, k)

\* s with each character c of `from` replaced by the character of `to` at c's place
MapStr(s, from, to) ==
    LET done[k \in 0..Len(s)] ==
            IF k = 0 THEN "" ELSE done[k - 1] \o MapChar(Char(s, k), from, to)
    IN  done[Len(s)]

\* str.upper and str.lower
Upper(s) == MapStr(s, LowerLetters, UpperLetters)
Lower(s) == MapStr(s, UpperLetters, LowerLetters)

\* s.split(c) for a separator c of one character
RECURSIVE Split(_, _)
Split(s, c) ==
    LET k == Find(s, c)
    IN  IF k = 0 THEN <<s>>
        ELSE <<SubSeq(s, 1, k - 1)>> \o Split(SubSeq(s, k + 1, Len(s)), c)

\* sep.join(parts)
RECURSIVE Join(_, _)
Join(parts, sep) ==
    IF Len(parts) = 0 THEN ""
    ELSE IF Len(parts) = 1 THEN parts[1]
    ELSE parts[1] \o sep \o Join(Tail(parts), sep)

\* What print(s) adds to standard output: s and a line break, as lines.
PrintLines(s) == Split(s, "\n")

(***************************************************************************)
(* The tool registry.                                                      *)
(***************************************************************************)
VCFX_TOOLS ==
    <<
       "VCFX_af_subsetter", "VCFX_alignment_checker", "VCFX_allele_balance_calc",
       "VCFX_allele_balance_filter", "VCFX_allele_counter", "VCFX_allele_freq_calc",
       "VCFX_ancestry_assigner", "VCFX_ancestry_inferrer", "VCFX_annotation_extractor",
       "VCFX_compressor", "VCFX_concordance_checker", "VCFX_cross_sample_concordance",
       "VCFX_custom_annotator", "VCFX_diff_tool", "VCFX_distance_calculator",
       "VCFX_dosage_calculator", "VCFX_duplicate_remover", "VCFX_fasta_converter",
       "VCFX_field_extractor", "VCFX_file_splitter", "VCFX_format_converter",
       "VCFX_genotype_query", "VCFX_gl_filter", "VCFX_haplotype_extractor",
       "VCFX_haplotype_phaser", "VCFX_header_parser", "VCFX_hwe_tester",
       "VCFX_impact_filter", "VCFX_inbreeding_calculator", "VCFX_indel_normalizer",
       "VCFX_indexer", "VCFX_info_aggregator", "VCFX_info_parser",
       "VCFX_info_summarizer", "VCFX_ld_calculator", "VCFX_merger",
       "VCFX_metadata_summarizer", "VCFX_missing_data_handler", "VCFX_missing_detector",
       "VCFX_multiallelic_splitter", "VCFX_nonref_filter", "VCFX_outlier_detector",
       "VCFX_phase_checker", "VCFX_phase_quality_filter", "VCFX_phred_filter",
       "VCFX_population_filter", "VCFX_position_subsetter", "VCFX_probability_filter",
       "VCFX_quality_adjuster", "VCFX_record_filter", "VCFX_ref_comparator",
       "VCFX_reformatter", "VCFX_region_subsampler", "VCFX_sample_extractor",
       "VCFX_sorter", "VCFX_subsampler", "VCFX_sv_handler",
       "VCFX_validator", "VCFX_variant_classifier", "VCFX_variant_counter"
    >>

(***************************************************************************)
(* Task records.  A task is a record whose domain is the set of keys the   *)
(* catalog gives it; every value is a string.                              *)
(***************************************************************************)
\* task.get(key, "")
Get(task, key) == IF key \in DOMAIN task THEN task[key] ELSE ""

\* The keys generate_conditional_rule and generate_tool_command subscript:
\* a task without one of them raises KeyError there.
RequiredKeys == {"tool", "name", "input"}

RaisesKeyError(task) == ~(RequiredKeys \subseteq DOMAIN task)

InputFile_Unresolved(task) == task.input

\* The f-string of the resolved input path.
InputFile(task) == "$(DATA_DIR)/" \o task.input

OutputFile_NoDir(task) == task.name \o ".csv"

OutputFile(task) == "results/" \o task.name \o ".csv"

\* The validator given its input as the other VCFX_ tools are.
ValidatorCommand_Stdin(input_file) == "$(VCFX_VALIDATOR_MMAP) < " \o input_file

\* The dispatch branches of generate_tool_command, one operator for each.
ValidatorCommand(input_file) == "$(VCFX_VALIDATOR) -i " \o input_file

StdinCommand_NoArgs(tool, args, input_file) == "$(" \o Upper(tool) \o ") < " \o input_file

StdinCommand(tool, args, input_file) ==
    IF args # "" THEN "$(" \o Upper(tool) \o ") " \o args \o " < " \o input_file
    ELSE "$(" \o Upper(tool) \o ") < " \o input_file

BcftoolsCommand(tool, command, input_file) ==
    "$(" \o tool \o ") " \o command \o " " \o input_file

VcftoolsCommand(tool, command, input_file) ==
    "$(" \o tool \o ") --vcf " \o input_file \o " " \o command \o " --stdout 2>/dev/null"

GatkCommand_InputFirst(tool, command, input_file) ==
    "$(" \o tool \o ") -I " \o input_file \o " " \o command

GatkCommand(tool, command, input_file) ==
    "$(" \o tool \o ") " \o command \o " -I " \o input_file

GenericCommand_WithArgs(tool, args, input_file) ==
    IF args # "" THEN "$(" \o tool \o ") " \o args \o " " \o input_file
    ELSE "$(" \o tool \o ") " \o input_file

\* args is the task's args, which the generic branch does not use.
GenericCommand(tool, args, input_file) == "$(" \o tool \o ") " \o input_file

generate_tool_command(task) ==
    LET tool == task.tool
        input_file == InputFile(task)
        args == Get(task, "args")
    IN  IF tool = "VCFX_VALIDATOR_MMAP" THEN ValidatorCommand(input_file)
        ELSE IF StartsWith(tool, "VCFX_") THEN StdinCommand(tool, args, input_file)
        ELSE IF tool = "BCFTOOLS" THEN BcftoolsCommand(tool, Get(task, "command"), input_file)
        ELSE IF tool = "VCFTOOLS" THEN VcftoolsCommand(tool, Get(task, "command"), input_file)
        ELSE IF tool = "GATK" THEN GatkCommand(tool, Get(task, "command"), input_file)
        ELSE GenericCommand(tool, args, input_file)

\* The tools whose rule tests for the tool before running it.
ComparisonTools == {"BCFTOOLS", "VCFTOOLS", "GATK", "VCFLIB"}

(***************************************************************************)
(* What a process finds around it when it runs, besides the catalog: the   *)
(* tools on the search path, the environment variables that are set and    *)
(* the files of the data directory.                                        *)
(***************************************************************************)
VARIABLES environ

BareEnviron == [onPath |-> {}, set |-> {}, files |-> {}]

FullEnviron == [onPath |-> {"bcftools", "vcftools", "gatk", "vcfstats"},
                set |-> {"BCFTOOLS", "VCFX_BIN_DIR"},
                files |-> {"data/a.vcf", "data/b.vcf"}]

Environs == {BareEnviron, FullEnviron}

\* The choice of rule made when the document is generated, from the tools on
\* the search path at that time.
IsConditional_WhenAbsent(task) ==
    /\ task.tool \in {"BCFTOOLS", "VCFTOOLS", "GATK", "VCFLIB"}
    /\ Lower(task.tool) \notin environ.onPath

IsConditional(task) == task.tool \in ComparisonTools

ToolCheck_NotLowered(task) == task.tool

\* The name the generated recipe hands to `command -v`.
ToolCheck(task) == IF task.tool = "GATK" THEN "gatk" ELSE Lower(task.tool)

ConditionalRecipe_NoTimeFile(task_name, tool_check, command, output_file) ==
    "\t@if command -v " \o tool_check \o " >/dev/null 2>&1; then \\\n"
    \o "\t\t$(call run-task," \o command \o "," \o output_file \o "); \\\n"
    \o "\telse \\\n"
    \o "\t\techo \"Skipping " \o task_name \o ": " \o tool_check
    \o " not available\" > " \o output_file \o "; \\\n"
    \o "\tfi"

\* The recipe lines of the rule of a comparison tool.
ConditionalRecipe(task_name, tool_check, command, output_file) ==
    "\t@if command -v " \o tool_check \o " >/dev/null 2>&1; then \\\n"
    \o "\t\t$(call run-task," \o command \o "," \o output_file \o "); \\\n"
    \o "\telse \\\n"
    \o "\t\techo \"Skipping " \o task_name \o ": " \o tool_check
    \o " not available\" > " \o output_file \o "; \\\n"
    \o "\t\techo \"0\" > " \o output_file \o ".time; \\\n"
    \o "\tfi"

\* The recipe line of the rule of any other tool.
PlainRecipe(command, output_file) ==
    "\t$(call run-task," \o command \o "," \o output_file \o ")"

generate_conditional_rule(task) ==
    LET input_file == InputFile(task)
        output_file == OutputFile(task)
        command == generate_tool_command(task)
    IN  IF IsConditional(task) THEN
            "\n" \o output_file \o ": " \o input_file \o "\n"
            \o ConditionalRecipe(task.name, ToolCheck(task), command, output_file)
        ELSE
            "\n" \o output_file \o ": " \o input_file \o "\n"
            \o PlainRecipe(command, output_file)

(***************************************************************************)
(* The inputs of a run: the command line and the catalog file.             *)
(***************************************************************************)
Task(name, tool, input) == [name |-> name, tool |-> tool, input |-> input]

WithArgs(task, args) == [k \in DOMAIN task \cup {"args"} |-> IF k = "args" THEN args ELSE task[k]]

WithCommand(task, command) ==
    [k \in DOMAIN task \cup {"command"} |-> IF k = "command" THEN command ELSE task[k]]

Without(task, key) == [k \in DOMAIN task \ {key} |-> task[k]]

\* The task entries catalogs are built from: every dispatch branch, with and
\* without the optional keys, names that collide, an input that spells another
\* task's output path, and entries that lack a required key.
TaskPool ==
    { Task("t1", "VCFX_sorter", "a.vcf"),
      WithArgs(Task("t2", "VCFX_allele_counter", "b.vcf"), "--limit 5"),
      WithArgs(Task("t1", "VCFX_VALIDATOR_MMAP", "a.vcf"), "--strict"),
      WithCommand(Task("t2", "BCFTOOLS", "a.vcf"), "view -H"),
      WithCommand(Task("t3", "VCFTOOLS", "b.vcf"), "--freq"),
      Task("t1", "GATK", "results/t2.csv"),
      Task("t2", "VCFLIB", "a.vcf"),
      WithArgs(Task("t3", "PLINK", "b.vcf"), "--x"),
      Without(Task("t1", "VCFX_sorter", "a.vcf"), "name"),
      Without(Task("t2", "GATK", "a.vcf"), "tool"),
      Without(Task("t3", "VCFX_sorter", "a.vcf"), "input") }

RECURSIVE SeqsUpTo(_, _)
SeqsUpTo(S, n) ==
    IF n = 0 THEN {<<>>}
    ELSE LET shorter == SeqsUpTo(S, n - 1)
         IN  shorter \cup {Append(q, x) : q \in {r \in shorter : Len(r) = n - 1}, x \in S}

\* What the catalog path holds.  kind: "unreadable" (read_text raises),
\* "malformed" (safe_load raises), "null" (safe_load returns None) or "dict";
\* for a dict, whether it has the key `tasks`, whether its value is null, and
\* the task entries otherwise.
CatalogFile(kind, hasTasks, tasksNone, items) ==
    [kind |-> kind, hasTasks |-> hasTasks, tasksNone |-> tasksNone, items |-> items]

Catalogs ==
    {CatalogFile(k, FALSE, FALSE, <<>>) : k \in {"unreadable", "malformed", "null", "dict"}}
    \cup {CatalogFile("dict", TRUE, TRUE, <<>>)}
    \cup {CatalogFile("dict", TRUE, FALSE, items) : items \in SeqsUpTo(TaskPool, MaxTasks)}

\* sys.argv
CommandLines ==
    { <<"mk_tasks.py">>, <<"mk_tasks.py", "tasks.yaml">>,
      <<"mk_tasks.py", "tasks.yaml", "extra">> }

(***************************************************************************)
(* python/tools.py: the search path as available_tools and run_tool see    *)
(* it.  PATH is a list of directories; a directory is readable or not and  *)
(* holds entries, each a regular executable file or not.                   *)
(***************************************************************************)
File(name, exec) == [name |-> name, exec |-> exec]

Dir(name, readable, entries) == [name |-> name, readable |-> readable, entries |-> entries]

WrapperDir == Dir("/opt/vcfx/bin", TRUE, {File("vcfx", TRUE)})

ToolsDir ==
    Dir("/opt/vcfx/tools", TRUE,
        {File("VCFX_variant_counter", TRUE), File("VCFX_sorter", TRUE),
         File("VCFX_notes", FALSE)})

OneDir == Dir("/usr/local/bin", TRUE, {File("VCFX_sorter", TRUE), File("python3", TRUE)})

GoneDir == Dir("/gone", FALSE, {})

\* os.environ["PATH"], split at os.pathsep
Paths ==
    { <<>>, <<GoneDir>>, <<WrapperDir>>, <<ToolsDir>>, <<GoneDir, OneDir>>,
      <<WrapperDir, ToolsDir>>, <<OneDir, ToolsDir>> }

\* shutil.which(name): the first directory of the path that holds `name` as an
\* executable file, joined with the name; "" stands for None.
Which(path, name) ==
    LET has == {k \in 1..Len(path) :
                   path[k].readable /\ File(name, TRUE) \in path[k].entries}
    IN  IF has = {} THEN ""
        ELSE path[CHOOSE k \in has : \A j \in has : k <= j].name \o "/" \o name

\* The PATH scan: entry[5:] for the entries that start with VCFX_ and are
\* executable files, in the directories os.listdir can read.
ScanPath(path) ==
    LET found == UNION {{e \in path[k].entries : StartsWith(e.name, "VCFX_") /\ e.exec}
                        : k \in {j \in 1..Len(path) : path[j].readable}}
    IN  {SubSeq(e.name, 6, Len(e.name)) : e \in found}

\* The characters of the names, in code point order.
CodePoints == "\t -.0123456789ABCDEFGHIJKLMNOPQRSTUVWXYZ_abcdefghijklmnopqrstuvwxyz"

\* a < b for str
RECURSIVE StrLess(_, _)
StrLess(a, b) ==
    IF b = "" THEN FALSE
    ELSE IF a = "" THEN TRUE
    ELSE IF Char(a, 1) = Char(b, 1)
         THEN StrLess(SubSeq(a, 2, Len(a)), SubSeq(b, 2, Len(b)))
         ELSE Find(CodePoints, Char(a, 1)) < Find(CodePoints, Char(b, 1))

\* sorted(tools) for a set of str
RECURSIVE Sorted(_)
Sorted(S) ==
    IF S = {} THEN <<>>
    ELSE LET m == CHOOSE x \in S : \A y \in S \ {x} : StrLess(x, y)
         IN  <<m>> \o Sorted(S \ {m})

IsSpace(c) == c = " " \/ c = "\t"

\* str.strip
RECURSIVE Strip(_)
Strip(s) ==
    IF s = "" THEN s
    ELSE IF IsSpace(Char(s, 1)) THEN Strip(SubSeq(s, 2, Len(s)))
    ELSE IF IsSpace(Char(s, Len(s))) THEN Strip(SubSeq(s, 1, Len(s) - 1))
    ELSE s

\* [line.strip() for line in out.splitlines() if line.strip()]
ListedNames(out) ==
    LET lines == Split(out, "\n")
    IN  SelectSeq([k \in 1..Len(lines) |-> Strip(lines[k])], LAMBDA l : l # "")

\* What running `vcfx --list` can give: the status and the standard output.
ListOutcomes ==
    { [returncode |-> 1, stdout |-> "usage: vcfx <tool>\n"],
      [returncode |-> 0, stdout |-> ""],
      [returncode |-> 0, stdout |-> "sorter\nallele_counter\n"],
      [returncode |-> 0, stdout |-> "  sorter \n\n" ],
      [returncode |-> 0, stdout |-> "--list\n"] }

\* str(arg): an argument is a str, [s |-> ...], or an int, [n |-> ...].
RECURSIVE Decimal(_)
Decimal(n) ==
    IF n < 10 THEN SubSeq("0123456789", n + 1, n + 1)
    ELSE Decimal(n \div 10) \o Decimal(n % 10)

Str(arg) == IF "s" \in DOMAIN arg THEN arg.s ELSE Decimal(arg.n)

\* cmd = [exe, *map(str, args)]
CommandOf_ArgsReversed(exe, args) ==
    <<exe>> \o [k \in 1..Len(args) |-> Str(args[Len(args) + 1 - k])]

CommandOf(exe, args) == <<exe>> \o [k \in 1..Len(args) |-> Str(args[k])]

\* The tools asked for, the arguments given, and the statuses a tool ends with.
ToolNames == {"sorter", "allele_counter", "dummytool"}

ArgLists == { <<>>, <<[s |-> "--help"]>>, <<[s |-> "-n"], [n |-> 25]>> }

ReturnCodes == {0, 1}

(***************************************************************************)
(* The state.                                                              *)
(***************************************************************************)
VARIABLES
    argv,       \* sys.argv
    catalog,    \* what the catalog path holds
    pc,         \* the statement the compiler is at; "exit" when the process has ended
    tasks,      \* main's local `tasks`: [none, items]
    stdout,     \* the lines written to standard output so far
    exitCode,   \* the exit status, once pc = "exit"
    err,        \* the exception that ended the process, "" when none
    i,          \* the rule loop's place in tasks
    runs,       \* the generated recipes make has run, one record for each
    before,     \* what an earlier run of the compiler on the catalog gave
    PATH,       \* python/tools.py: os.environ["PATH"], as directories
    cache,      \* python/tools.py: _TOOL_CACHE, [set, list]; None is set = FALSE
    stale,      \* PATH has changed since _TOOL_CACHE was assigned
    listed,     \* the names available_tools returned last, PATH unchanged since
    lastCall,   \* the last call of available_tools or run_tool, and what it did
    flags,      \* scripts/build_and_publish.py: args, as parse_args gives them
    step,       \* the statement main is at; "exit" when the process has ended
    present,    \* the directories of python/ that exist, of build, dist, egg-info
    commands,   \* the commands run_command has run, each with its status
    printed,    \* the lines the script has printed
    answer,     \* what input() gave: [asked, eof, text], eof for EOFError
    status      \* the exit status of the script, once step = "exit"

compilerVars == <<argv, catalog, pc, tasks, stdout, exitCode, err, i, runs, environ, before>>

toolsVars == <<PATH, cache, stale, listed, lastCall>>

publishVars == <<flags, step, present, commands, printed, answer, status>>

vars == <<compilerVars, toolsVars, publishVars>>

NoRun == [done |-> FALSE, stdout |-> <<>>, exitCode |-> 0, err |-> ""]

\* _TOOL_CACHE = None
NoCache == [set |-> FALSE, list |-> <<>>]

\* The record of a call: its arguments, _TOOL_CACHE and `stale` when it was
\* made, the command lines of the processes it started, whether it scanned
\* PATH, the exception it raised ("" when it returned) and what it returned.
NoCall ==
    [fn |-> "", tool |-> "", args |-> <<>>, check |-> FALSE, refresh |-> FALSE,
     cached |-> NoCache, stale |-> FALSE, wasListed |-> FALSE,
     procs |-> <<>>, scanned |-> FALSE, raised |-> "",
     names |-> <<>>, completed |-> [args |-> <<>>, returncode |-> 0]]

\* python/tools.py is not imported.
ToolsOff ==
    /\ PATH = <<>>
    /\ cache = NoCache
    /\ stale = FALSE
    /\ listed = {}
    /\ lastCall = NoCall

NoAnswer == [asked |-> FALSE, eof |-> FALSE, text |-> ""]

\* scripts/build_and_publish.py is not run.
PublishOff ==
    /\ flags = [clean |-> FALSE, test |-> FALSE, skip_build |-> FALSE, dry_run |-> FALSE]
    /\ step = "off"
    /\ present = {}
    /\ commands = <<>>
    /\ printed = <<>>
    /\ answer = NoAnswer
    /\ status = 0

Init ==
    /\ argv \in CommandLines
    /\ catalog \in Catalogs
    /\ pc = "start"
    /\ tasks = [none |-> FALSE, items |-> <<>>]
    /\ stdout = <<>>
    /\ exitCode = 0
    /\ err = ""
    /\ i = 1
    /\ runs = {}
    /\ environ = BareEnviron
    /\ before = NoRun
    /\ ToolsOff
    /\ PublishOff

\* An uncaught exception: the interpreter flushes what was printed, prints the
\* traceback to standard error and exits with status 1.
Raise(e) ==
    /\ pc' = "exit"
    /\ exitCode' = 1
    /\ err' = e
    /\ UNCHANGED <<argv, catalog, tasks, stdout, i, runs>>

Emit(lines, next) ==
    /\ stdout' = stdout \o lines
    /\ pc' = next
    /\ UNCHANGED <<argv, catalog, tasks, exitCode, err, i, runs>>

\* The arity test with only the missing-argument half: len(sys.argv) < 2.
CheckArgs_MissingOnly ==
    /\ pc = "start"
    /\ IF Len(argv) < 2
       THEN /\ stdout' = stdout \o PrintLines("Usage: mk_tasks.py TASKS.yaml")
            /\ pc' = "exit"
            /\ exitCode' = 1
            /\ err' = "SystemExit"
            /\ UNCHANGED <<argv, catalog, tasks, i, runs>>
       ELSE /\ pc' = "load"
            /\ UNCHANGED <<argv, catalog, tasks, stdout, exitCode, err, i, runs>>

\* The __main__ block.
CheckArgs ==
    /\ pc = "start"
    /\ IF Len(argv) # 2
       THEN /\ stdout' = stdout \o PrintLines("Usage: mk_tasks.py TASKS.yaml")
            /\ pc' = "exit"
            /\ exitCode' = 1
            /\ err' = "SystemExit"
            /\ UNCHANGED <<argv, catalog, tasks, i, runs>>
       ELSE /\ pc' = "load"
            /\ UNCHANGED <<argv, catalog, tasks, stdout, exitCode, err, i, runs>>

\* cfg = yaml.safe_load(Path(task_yaml).read_text()); tasks = cfg.get("tasks", [])
Load ==
    /\ pc = "load"
    /\ IF catalog.kind = "unreadable" THEN Raise("OSError")
       ELSE IF catalog.kind = "malformed" THEN Raise("YAMLError")
       ELSE IF catalog.kind = "null" THEN Raise("AttributeError")
       ELSE /\ tasks' = IF catalog.hasTasks
                        THEN [none |-> catalog.tasksNone, items |-> catalog.items]
                        ELSE [none |-> FALSE, items |-> <<>>]
            /\ pc' = "header"
            /\ UNCHANGED <<argv, catalog, stdout, exitCode, err, i, runs>>

HeaderLines ==
    PrintLines("# Auto-generated from tasks.yaml - do not edit manually")
    \o PrintLines("ROOT_DIR := $(abspath ..)")
    \o PrintLines("DATA_DIR := $(ROOT_DIR)/benchmarks/data")
    \o PrintLines("RESULTS_DIR := $(ROOT_DIR)/benchmarks/results")
    \o PrintLines("BENCH_SCRIPTS := $(ROOT_DIR)/benchmarks/scripts")
    \o PrintLines("VCFX_BIN_DIR ?= $(ROOT_DIR)/build/src")
    \o PrintLines("")

PrintHeader == pc = "header" /\ Emit(HeaderLines, "toolvars")

ToolVarLine(tool) == Upper(tool) \o " := $(VCFX_BIN_DIR)/" \o tool \o "/" \o tool

ToolVarLines_Reversed ==
    LET upTo[k \in 0..Len(VCFX_TOOLS)] ==
            IF k = 0 THEN <<>> ELSE <<ToolVarLine(VCFX_TOOLS[k])>> \o upTo[k - 1]
    IN  upTo[Len(VCFX_TOOLS)]

\* What `for tool in VCFX_TOOLS: print(...)` writes.
ToolVarLines ==
    LET upTo[k \in 0..Len(VCFX_TOOLS)] ==
            IF k = 0 THEN <<>> ELSE upTo[k - 1] \o <<ToolVarLine(VCFX_TOOLS[k])>>
    IN  upTo[Len(VCFX_TOOLS)]

PrintToolVars == pc = "toolvars" /\ Emit(ToolVarLines, "comparison")

ComparisonLines ==
    PrintLines("")
    \o PrintLines("# Comparison tools (if available)")
    \o PrintLines("BCFTOOLS ?= bcftools")
    \o PrintLines("VCFTOOLS ?= vcftools")
    \o PrintLines("GATK ?= gatk")
    \o PrintLines("VCFLIB_vcfstats ?= vcfstats")
    \o PrintLines("VCFLIB_vcffilter ?= vcffilter")
    \o PrintLines("")

PrintComparison == pc = "comparison" /\ Emit(ComparisonLines, "tasks")

\* The names with each name once, at its first place.
Names_Distinct(items) ==
    LET firsts == SelectSeq([k \in 1..Len(items) |-> k],
                            LAMBDA k : \A j \in 1..(k - 1) : items[j].name # items[k].name)
    IN  [k \in 1..Len(firsts) |-> items[firsts[k]].name]

Names_Reversed(items) == [k \in 1..Len(items) |-> items[Len(items) + 1 - k].name]

\* [f(t) for t in tasks] as a sequence
Names(items) == [k \in 1..Len(items) |-> items[k].name]
Outputs(items) == [k \in 1..Len(items) |-> OutputFile(items[k])]

\* Iterating tasks raises TypeError when it is None, and t["name"] raises
\* KeyError for the first task without a name.
NamesRaise == IF tasks.none THEN "TypeError"
              ELSE IF \E k \in 1..Len(tasks.items) : "name" \notin DOMAIN tasks.items[k]
                   THEN "KeyError"
                   ELSE ""

PrintTasks ==
    /\ pc = "tasks"
    /\ IF NamesRaise # "" THEN Raise(NamesRaise)
       ELSE Emit(PrintLines("TASKS := " \o Join(Names(tasks.items), " ")) \o PrintLines(""),
                  "outputs")

PrintOutputs ==
    /\ pc = "outputs"
    /\ IF NamesRaise # "" THEN Raise(NamesRaise)
       ELSE Emit(PrintLines("OUTPUTS := " \o Join(Outputs(tasks.items), " ")) \o PrintLines(""),
                  "rules")

\* One turn of `for task in tasks: print(generate_conditional_rule(task))`.
PrintRule ==
    /\ pc = "rules"
    /\ i <= Len(tasks.items)
    /\ IF RaisesKeyError(tasks.items[i]) THEN Raise("KeyError")
       ELSE /\ stdout' = stdout \o PrintLines(generate_conditional_rule(tasks.items[i]))
            /\ i' = i + 1
            /\ UNCHANGED <<argv, catalog, pc, tasks, exitCode, err, runs>>

FooterLines ==
    PrintLines("")
    \o PrintLines("# Default target")
    \o PrintLines("all: $(OUTPUTS)")
    \o PrintLines("")
    \o PrintLines("# Clean target")
    \o PrintLines("clean:")
    \o PrintLines("\trm -rf results/*.csv results/*.time")

\* The loop is over: the footer, and main returns (exit status 0).
PrintFooter ==
    /\ pc = "rules"
    /\ i > Len(tasks.items)
    /\ Emit(FooterLines, "exit")

(***************************************************************************)
(* Reading the emitted document the way make reads it.                     *)
(***************************************************************************)
\* The ascending sequence of a finite set of integers.
RECURSIVE Ascending(_)
Ascending(S) ==
    IF S = {} THEN <<>>
    ELSE LET m == CHOOSE x \in S : \A y \in S : x <= y
         IN  <<m>> \o Ascending(S \ {m})

\* The words of a line: its parts between blanks.
Words(s) == SelectSeq(Split(s, " "), LAMBDA w : w # "")

\* The first line of `doc` that starts with `prefix`, 0 when there is none.
LineAt(doc, prefix) ==
    LET at == {k \in 1..Len(doc) : StartsWith(doc[k], prefix)}
    IN  IF at = {} THEN 0 ELSE CHOOSE k \in at : \A j \in at : k <= j

\* The value of the variable assigned by the first line starting `binding`.
VarWords(doc, binding) ==
    LET k == LineAt(doc, binding)
    IN  IF k = 0 THEN <<>> ELSE Words(SubSeq(doc[k], Len(binding) + 1, Len(doc[k])))

\* A rule line: `target: prerequisites`, no recipe line, comment or assignment.
IsRuleLine(l) ==
    /\ l # ""
    /\ ~StartsWith(l, "\t")
    /\ ~StartsWith(l, "#")
    /\ Find(l, ":") > 0
    /\ ~Contains(l, ":=")
    /\ ~Contains(l, "?=")

\* The places of the task rules: the rule lines between the OUTPUTS binding and
\* the default target.
TaskRuleAts(doc) ==
    LET from == LineAt(doc, "OUTPUTS := ")
        stop == LineAt(doc, "# Default target")
        to == IF stop = 0 THEN Len(doc) ELSE stop - 1
    IN  IF from = 0 THEN <<>>
        ELSE Ascending({k \in (from + 1)..to : IsRuleLine(doc[k])})

RuleTarget(l) == SubSeq(l, 1, Find(l, ":") - 1)

RulePrereqs(l) == Words(SubSeq(l, Find(l, ":") + 1, Len(l)))

\* The recipe of the rule at line k: the lines after it that start with a tab.
RuleRecipe(doc, k) ==
    LET ends == {j \in k..Len(doc) : j = Len(doc) \/ ~StartsWith(doc[j + 1], "\t")}
        last == CHOOSE j \in ends : \A e \in ends : j <= e
    IN  SubSeq(doc, k + 1, last)

\* The task rules of the document, in its order.
Rules(doc) ==
    LET ats == TaskRuleAts(doc)
    IN  [r \in 1..Len(ats) |->
            [target |-> RuleTarget(doc[ats[r]]),
             prereqs |-> RulePrereqs(doc[ats[r]]),
             recipe |-> RuleRecipe(doc, ats[r])]]

\* The directory above the one make runs in, as $(abspath ..) gives it: some
\* absolute path.
AbsParent == "/repo"

\* The text a binding of the document gives variable `name`; make expands a
\* variable with no binding to nothing.
VarValue(doc, name) ==
    LET k == IF LineAt(doc, name \o " := ") # 0 THEN LineAt(doc, name \o " := ")
             ELSE LineAt(doc, name \o " ?= ")
    IN  IF k = 0 THEN "" ELSE SubSeq(doc[k], Len(name) + 5, Len(doc[k]))

\* s with its variable references $(NAME) expanded, as make expands the
\* targets and prerequisites of a rule.
RECURSIVE Expand(_, _)
Expand(doc, s) ==
    LET open == Find(s, "$(")
    IN  IF open = 0 THEN s
        ELSE LET rest == SubSeq(s, open + 2, Len(s))
                 close == Find(rest, ")")
                 ref == SubSeq(rest, 1, close - 1)
                 value == IF StartsWith(ref, "abspath ") THEN AbsParent
                          ELSE Expand(doc, VarValue(doc, ref))
             IN  SubSeq(s, 1, open - 1) \o value
                 \o Expand(doc, SubSeq(rest, close + 1, Len(rest)))

(***************************************************************************)
(* Running a generated recipe.  make joins the lines that end with a       *)
(* backslash into one shell command; the shell runs the `if` of a          *)
(* conditional recipe, `command -v` answering whether the name resolves on *)
(* the search path.                                                        *)
(***************************************************************************)
IfPrefix == "@if command -v "
IfSuffix == " >/dev/null 2>&1; then \\"
RunTaskPrefix == "$(call run-task,"

RECURSIVE StripTabs(_)
StripTabs(l) == IF StartsWith(l, "\t") THEN StripTabs(SubSeq(l, 2, Len(l))) ELSE l

\* A recipe line as the shell command it holds: without the tabs before it and
\* the `; \` that continues it.
ShellCommand(l) ==
    LET c == StripTabs(l)
    IN  IF EndsWith(c, "; \\") THEN SubSeq(c, 1, Len(c) - 3) ELSE c

IsConditionalRecipe(recipe) ==
    /\ Len(recipe) > 0
    /\ StartsWith(StripTabs(recipe[1]), IfPrefix)
    /\ EndsWith(recipe[1], IfSuffix)

\* The name a conditional recipe tests.
RecipeCheck(recipe) ==
    LET c == StripTabs(recipe[1])
    IN  SubSeq(c, Len(IfPrefix) + 1, Len(c) - Len(IfSuffix))

\* The commands of the branch the shell takes.
BranchCommands(recipe, found) ==
    LET elseAt == CHOOSE k \in 1..Len(recipe) : StripTabs(recipe[k]) = "else \\"
        fiAt == CHOOSE k \in 1..Len(recipe) : StripTabs(recipe[k]) = "fi"
        lines == IF found THEN SubSeq(recipe, 2, elseAt - 1)
                 ELSE SubSeq(recipe, elseAt + 1, fiAt - 1)
    IN  [k \in 1..Len(lines) |-> ShellCommand(lines[k])]

RecipeCommands(recipe, found) ==
    IF IsConditionalRecipe(recipe) THEN BranchCommands(recipe, found)
    ELSE [k \in 1..Len(recipe) |-> ShellCommand(recipe[k])]

IsRunTask(c) == StartsWith(c, RunTaskPrefix) /\ EndsWith(c, ")")

\* The arguments of a run-task call: `command,output`.
RunTaskArgs(c) == SubSeq(c, Len(RunTaskPrefix) + 1, Len(c) - 1)

IsEcho(c) == StartsWith(c, "echo \"") /\ Contains(c, "\" > ")

\* echo "text" > file, as <<file, text>>
EchoWrite(c) ==
    LET close == Find(c, "\" > ")
    IN  <<SubSeq(c, close + 4, Len(c)), SubSeq(c, 7, close - 1)>>

\* What running the recipe does: the run-task calls made, the files written by
\* echo, and the recipe's exit status ("0", or "run-task" when it is the status of
\* a run-task call, the last command run).
RunRecipe(recipe, found) ==
    LET cmds == RecipeCommands(recipe, found)
    IN  [ran |-> SelectSeq(cmds, IsRunTask),
         writes |-> [k \in 1..Len(SelectSeq(cmds, IsEcho)) |->
                        EchoWrite(SelectSeq(cmds, IsEcho)[k])],
         status |-> IF Len(cmds) > 0 /\ IsRunTask(cmds[Len(cmds)]) THEN "run-task" ELSE "0"]

\* make runs the recipe of one task rule not run yet; `found` is whether the
\* name the recipe tests resolves on the search path at that moment.
MakeRule ==
    /\ pc = "exit"
    /\ exitCode = 0
    /\ LET rules == Rules(stdout)
       IN  \E r \in 1..Len(rules), found \in BOOLEAN :
             LET conditional == IsConditionalRecipe(rules[r].recipe)
             IN  /\ \A run \in runs : run.rule # r
                 /\ conditional \/ found
                 /\ runs' = runs \cup
                      {[rule |-> r,
                        target |-> rules[r].target,
                        conditional |-> conditional,
                        check |-> IF conditional THEN RecipeCheck(rules[r].recipe) ELSE "",
                        found |-> found,
                        did |-> RunRecipe(rules[r].recipe, found)]}
    /\ UNCHANGED <<argv, catalog, pc, tasks, stdout, exitCode, err, i>>

\* A step of the compiler or of make leaves everything else as it is.
Elsewhere == UNCHANGED <<environ, before, toolsVars, publishVars>>

Next ==
    \/ CheckArgs /\ Elsewhere
    \/ Load /\ Elsewhere
    \/ PrintHeader /\ Elsewhere
    \/ PrintToolVars /\ Elsewhere
    \/ PrintComparison /\ Elsewhere
    \/ PrintTasks /\ Elsewhere
    \/ PrintOutputs /\ Elsewhere
    \/ PrintRule /\ Elsewhere
    \/ PrintFooter /\ Elsewhere
    \/ MakeRule /\ Elsewhere

Spec == Init /\ [][Next]_vars

(***************************************************************************)
(* The compiler run twice on one catalog: when the first run has ended its *)
(* output and status are kept, the environment becomes any environment,    *)
(* and the program is started again with the same command line.            *)
(***************************************************************************)
InitTwice == Init /\ Len(argv) = 2

Recompile ==
    /\ pc = "exit"
    /\ ~before.done
    /\ before' = [done |-> TRUE, stdout |-> stdout, exitCode |-> exitCode, err |-> err]
    /\ environ' \in Environs
    /\ pc' = "start"
    /\ tasks' = [none |-> FALSE, items |-> <<>>]
    /\ stdout' = <<>>
    /\ exitCode' = 0
    /\ err' = ""
    /\ i' = 1
    /\ UNCHANGED <<argv, catalog, runs, toolsVars, publishVars>>

NextTwice ==
    \/ CheckArgs /\ Elsewhere
    \/ Load /\ Elsewhere
    \/ PrintHeader /\ Elsewhere
    \/ PrintToolVars /\ Elsewhere
    \/ PrintComparison /\ Elsewhere
    \/ PrintTasks /\ Elsewhere
    \/ PrintOutputs /\ Elsewhere
    \/ PrintRule /\ Elsewhere
    \/ PrintFooter /\ Elsewhere
    \/ Recompile

SpecTwice == InitTwice /\ [][NextTwice]_vars

(***************************************************************************)
(* python/tools.py: calls of available_tools and run_tool, in any order,   *)
(* with PATH changing between them.                                        *)
(***************************************************************************)
\* No compiler process.
CompilerOff ==
    /\ argv = <<>>
    /\ catalog = CatalogFile("unreadable", FALSE, FALSE, <<>>)
    /\ pc = "off"
    /\ tasks = [none |-> FALSE, items |-> <<>>]
    /\ stdout = <<>>
    /\ exitCode = 0
    /\ err = ""
    /\ i = 1
    /\ runs = {}
    /\ environ = BareEnviron
    /\ before = NoRun

\* The module is imported: _TOOL_CACHE = None.
InitTools ==
    /\ CompilerOff
    /\ PublishOff
    /\ PATH \in Paths
    /\ cache = NoCache
    /\ stale = FALSE
    /\ listed = {}
    /\ lastCall = NoCall

Range(f) == {f[k] : k \in DOMAIN f}

\* if _TOOL_CACHE is not None and not refresh: return _TOOL_CACHE
UseCache_WhenSet(refresh) == cache.set

UseCache(refresh) == cache.set /\ ~refresh

\* _TOOL_CACHE when `raise FileNotFoundError` is reached: no statement before
\* it assigns the cache.
CacheAtRaise_Cleared(cached) == NoCache

CacheAtRaise(cached) == cached

\* available_tools(refresh); `outcome` is what `vcfx --list` gives if it is run.
available_tools(refresh, outcome) ==
    LET c == [NoCall EXCEPT !.fn = "available_tools", !.refresh = refresh,
                            !.cached = cache, !.stale = stale]
        exe == Which(PATH, "vcfx")
        tools == ScanPath(PATH)
        listing == IF outcome.returncode # 0 THEN <<>> ELSE ListedNames(outcome.stdout)
    IN  /\ IF UseCache(refresh)
           THEN /\ lastCall' = [c EXCEPT !.names = cache.list]
                /\ listed' = Range(cache.list)
                /\ UNCHANGED <<cache, stale>>
           ELSE IF exe = ""
           THEN IF tools = {}
                THEN /\ lastCall' = [c EXCEPT !.scanned = TRUE, !.raised = "FileNotFoundError"]
                     /\ listed' = {}
                     /\ cache' = CacheAtRaise(cache)
                     /\ UNCHANGED stale
                ELSE /\ cache' = [set |-> TRUE, list |-> Sorted(tools)]
                     /\ stale' = FALSE
                     /\ lastCall' = [c EXCEPT !.scanned = TRUE, !.names = Sorted(tools)]
                     /\ listed' = tools
           ELSE /\ cache' = [set |-> TRUE, list |-> listing]
                /\ stale' = FALSE
                /\ lastCall' = [c EXCEPT !.procs = <<CommandOf(exe, <<[s |-> "--list"]>>)>>,
                                     !.names = listing]
                /\ listed' = Range(listing)
        /\ UNCHANGED <<PATH, compilerVars, publishVars>>

AvailableTools == \E refresh \in BOOLEAN, outcome \in ListOutcomes : available_tools(refresh, outcome)

\* run_tool(tool, *args, check=check); `returncode` is the status the tool
\* ends with if it is run.
run_tool(tool, args, check, returncode) ==
    LET c == [NoCall EXCEPT !.fn = "run_tool", !.tool = tool, !.args = args,
                            !.check = check, !.wasListed = tool \in listed]
        exe == Which(PATH, "VCFX_" \o tool)
        cmd == CommandOf(exe, args)
    IN  /\ IF exe = ""
           THEN lastCall' = [c EXCEPT !.raised = "FileNotFoundError"]
           ELSE IF check /\ returncode # 0
           THEN lastCall' = [c EXCEPT !.procs = <<cmd>>, !.raised = "CalledProcessError"]
           ELSE lastCall' = [c EXCEPT !.procs = <<cmd>>,
                                  !.completed = [args |-> cmd, returncode |-> returncode]]
        /\ UNCHANGED <<PATH, cache, stale, listed, compilerVars, publishVars>>

RunTool ==
    \E tool \in ToolNames, args \in ArgLists, check \in BOOLEAN, returncode \in ReturnCodes :
        run_tool(tool, args, check, returncode)

\* The caller, or anything else in the process, assigns os.environ["PATH"].
ChangePath ==
    /\ \E path \in Paths \ {PATH} : PATH' = path
    /\ stale' = cache.set
    /\ listed' = {}
    /\ lastCall' = NoCall
    /\ UNCHANGED <<cache, compilerVars, publishVars>>

NextTools ==
    \/ AvailableTools
    \/ RunTool
    \/ ChangePath

SpecTools == InitTools /\ [][NextTools]_vars

(***************************************************************************)
(* scripts/build_and_publish.py: one run of main.  The commands it starts  *)
(* end with any status and are taken to write nothing to their pipes.      *)
(***************************************************************************)
\* sys.executable
PythonExe == "/usr/bin/python3"

\* Path(__file__).parent.parent / "python"
PythonDir == "/repo/python"

DistDir == PythonDir \o "/dist"

\* str(dist_dir / "*")
DistGlob == DistDir \o "/*"

BuildCommand == <<PythonExe, "-m", "build">>

CheckCommand == <<PythonExe, "-m", "twine", "check", DistGlob>>

TestUploadCommand ==
    <<PythonExe, "-m", "twine", "upload", "--repository", "testpypi", DistGlob>>

UploadCommand == <<PythonExe, "-m", "twine", "upload", DistGlob>>

\* What clean_build_dirs globs for, in its order, as the names that match.
Artifacts == <<"build", "dist", "vcfx.egg-info">>

\* The files a build leaves in dist.
DistFiles == <<"vcfx-1.0.0-py3-none-any.whl", "vcfx-1.0.0.tar.gz">>

Flags == [clean : BOOLEAN, test : BOOLEAN, skip_build : BOOLEAN, dry_run : BOOLEAN]

\* What the user types at the prompt.
Responses == {"y", "Y", "n", "yes", "", " y"}

\* repr of a list of str
Repr(list) == "[" \o Join([k \in 1..Len(list) |-> "'" \o list[k] \o "'"], ", ") \o "]"

\* subprocess.run(..., check=True) raises CalledProcessError
Failed_Never(returncode) == FALSE

Failed(returncode) == returncode # 0

\* What run_command(cmd) prints when the command ends with `returncode`.
RunLines(cmd, returncode) ==
    <<"Running: " \o Join(cmd, " ")>>
    \o IF Failed(returncode)
       THEN <<"Error running command: Command '" \o Repr(cmd)
                \o "' returned non-zero exit status " \o Decimal(returncode) \o ".">>
       ELSE <<>>

\* if response.lower() == 'y'
Confirms_UnlessNo(response) == Lower(response) # "n"

Confirms(response) == Lower(response) = "y"

InitPublish ==
    /\ CompilerOff
    /\ ToolsOff
    /\ flags \in Flags
    /\ step = "clean"
    /\ present \in SUBSET Range(Artifacts)
    /\ commands = <<>>
    /\ printed = <<>>
    /\ answer = NoAnswer
    /\ status = 0

\* sys.exit(code), or main returning (code 0)
Exit(code) == step' = "exit" /\ status' = code

\* if args.clean: clean_build_dirs()
Clean ==
    /\ step = "clean"
    /\ IF flags.clean
       THEN /\ present' = {}
            /\ printed' = printed
                  \o [k \in 1..Len(SelectSeq(Artifacts, LAMBDA a : a \in present)) |->
                         "Removing " \o PythonDir \o "/"
                             \o SelectSeq(Artifacts, LAMBDA a : a \in present)[k]]
       ELSE UNCHANGED <<present, printed>>
    /\ step' = "build"
    /\ UNCHANGED <<flags, commands, answer, status, compilerVars, toolsVars>>

\* if not args.skip_build: dist_dir = build_package()  else: the dist test
Build ==
    /\ step = "build"
    /\ IF flags.skip_build
       THEN IF "dist" \in present
            THEN /\ step' = "check"
                 /\ UNCHANGED <<present, commands, printed, status>>
            ELSE /\ printed' = Append(printed,
                        "Error: dist directory doesn't exist. Run without --skip-build first.")
                 /\ Exit(1)
                 /\ UNCHANGED <<present, commands>>
       ELSE \E returncode \in ReturnCodes, made \in {{}, Range(Artifacts)} :
                LET ran == Append(printed, "Building package...")
                               \o RunLines(BuildCommand, returncode)
                IN  /\ commands' = Append(commands,
                                          [cmd |-> BuildCommand, returncode |-> returncode])
                    /\ present' = present \cup made
                    /\ IF Failed(returncode)
                       THEN printed' = ran /\ Exit(1)
                       ELSE IF "dist" \notin present'
                       THEN /\ printed' = Append(ran, "Error: dist directory not created")
                            /\ Exit(1)
                       ELSE /\ printed' = Append(ran, "Built files: " \o Repr(DistFiles))
                            /\ step' = "check"
                            /\ UNCHANGED status
    /\ UNCHANGED <<flags, answer, compilerVars, toolsVars>>

\* check_package(dist_dir)
Check ==
    /\ step = "check"
    /\ \E returncode \in ReturnCodes :
           /\ commands' = Append(commands, [cmd |-> CheckCommand, returncode |-> returncode])
           /\ printed' = Append(printed, "Checking package with twine...")
                             \o RunLines(CheckCommand, returncode)
           /\ IF Failed(returncode) THEN Exit(1) ELSE step' = "publish" /\ UNCHANGED status
    /\ UNCHANGED <<flags, present, answer, compilerVars, toolsVars>>

\* if args.dry_run: print(...); return
DryRun ==
    /\ step = "publish"
    /\ flags.dry_run
    /\ printed' = Append(printed, "Dry run complete. Package built and checked successfully.")
    /\ Exit(0)
    /\ UNCHANGED <<flags, present, commands, answer, compilerVars, toolsVars>>

\* if args.test: publish_to_testpypi(dist_dir)
PublishTest ==
    /\ step = "publish"
    /\ ~flags.dry_run
    /\ flags.test
    /\ \E returncode \in ReturnCodes :
           /\ commands' = Append(commands,
                                 [cmd |-> TestUploadCommand, returncode |-> returncode])
           /\ printed' = Append(printed, "Publishing to TestPyPI...")
                             \o RunLines(TestUploadCommand, returncode)
           /\ Exit(IF Failed(returncode) THEN 1 ELSE 0)
    /\ UNCHANGED <<flags, present, answer, compilerVars, toolsVars>>

\* response = input(...); then the test of the response.  At end of input
\* input raises EOFError, which nothing catches.
Ask ==
    /\ step = "publish"
    /\ ~flags.dry_run
    /\ ~flags.test
    /\ \/ /\ answer' = [asked |-> TRUE, eof |-> TRUE, text |-> ""]
          /\ printed' = Append(printed, "Publish to PyPI? This cannot be undone. (y/N): ")
          /\ Exit(1)
       \/ \E response \in Responses :
              /\ answer' = [asked |-> TRUE, eof |-> FALSE, text |-> response]
              /\ IF Confirms(response)
                 THEN /\ printed' = Append(printed,
                                           "Publish to PyPI? This cannot be undone. (y/N): ")
                      /\ step' = "upload"
                      /\ UNCHANGED status
                 ELSE /\ printed' = printed
                             \o <<"Publish to PyPI? This cannot be undone. (y/N): ", "Aborted.">>
                      /\ Exit(0)
    /\ UNCHANGED <<flags, present, commands, compilerVars, toolsVars>>

\* publish_to_pypi(dist_dir)
PublishPyPI ==
    /\ step = "upload"
    /\ \E returncode \in ReturnCodes :
           /\ commands' = Append(commands, [cmd |-> UploadCommand, returncode |-> returncode])
           /\ printed' = Append(printed, "Publishing to PyPI...")
                             \o RunLines(UploadCommand, returncode)
           /\ Exit(IF Failed(returncode) THEN 1 ELSE 0)
    /\ UNCHANGED <<flags, present, answer, compilerVars, toolsVars>>

NextPublish ==
    \/ Clean
    \/ Build
    \/ Check
    \/ DryRun
    \/ PublishTest
    \/ Ask
    \/ PublishPyPI

SpecPublish == InitPublish /\ [][NextPublish]_vars

(***************************************************************************)
(* What the properties below read off a state.                             *)
(***************************************************************************)
\* main returned: the whole document was written.
Compiled == pc = "exit" /\ exitCode = 0

\* The task rules written so far; the r-th was written for the r-th task.
Emitted == Rules(stdout)

\* The command a rule hands to run-task: the first argument of the call.
EmittedCommand(rule) ==
    LET calls == SelectSeq([k \in 1..Len(rule.recipe) |-> ShellCommand(rule.recipe[k])],
                           IsRunTask)
        args == RunTaskArgs(calls[1])
    IN  SubSeq(args, 1, Len(args) - Len(rule.target) - 1)

IsFirstParty(task) == StartsWith(task.tool, "VCFX_")

(***************************************************************************)
(* C1.  For every catalog that main compiles, the number of task rules in  *)
(* the document equals the number of tasks, and the target of the i-th     *)
(* rule is results/<name>.csv for the name of the i-th task.               *)
(***************************************************************************)
C1_OneRulePerTask ==
    Compiled =>
        LET rules == Emitted
        IN  /\ Len(rules) = Len(catalog.items)
            /\ \A r \in 1..Len(rules) :
                  rules[r].target = "results/" \o catalog.items[r].name \o ".csv"

\* A compiled catalog of two tasks, one with a conditional rule and one without.
C1_Witness ==
    /\ Compiled
    /\ Len(catalog.items) = 2
    /\ ~IsConditional(catalog.items[1])
    /\ IsConditional(catalog.items[2])
    /\ Len(Emitted) = 2

(***************************************************************************)
(* C2.  The entries of TASKS, the entries of OUTPUTS and the rule blocks   *)
(* stand in the order of the catalog's tasks: the k-th entry of each is    *)
(* the k-th task's name, output path and rule.                             *)
(***************************************************************************)
C2_CatalogOrder ==
    Compiled =>
        LET n == Len(catalog.items)
            names == VarWords(stdout, "TASKS := ")
            outputs == VarWords(stdout, "OUTPUTS := ")
            rules == Emitted
        IN  /\ Len(names) = n /\ Len(outputs) = n /\ Len(rules) = n
            /\ \A k \in 1..n :
                  /\ names[k] = catalog.items[k].name
                  /\ outputs[k] = "results/" \o catalog.items[k].name \o ".csv"
                  /\ rules[k].target = outputs[k]

\* A compiled catalog of two tasks with different names and inputs.
C2_Witness ==
    /\ Compiled
    /\ Len(catalog.items) = 2
    /\ catalog.items[1].name # catalog.items[2].name
    /\ catalog.items[1].input # catalog.items[2].input
    /\ VarWords(stdout, "TASKS := ") = <<catalog.items[1].name, catalog.items[2].name>>

(***************************************************************************)
(* C3.  As claimed: for every task whose tool starts with VCFX_, the       *)
(* command contains $(DATA_DIR)/<input> and, when args is a non-empty      *)
(* string, contains args.                                                  *)
(***************************************************************************)
C3_Claimed ==
    LET rules == Emitted
    IN  \A r \in 1..Len(rules) :
            LET task == tasks.items[r]
                command == EmittedCommand(rules[r])
            IN  IsFirstParty(task) =>
                    /\ Contains(command, "$(DATA_DIR)/" \o task.input)
                    /\ Get(task, "args") # "" => Contains(command, Get(task, "args"))

(***************************************************************************)
(* C3, amended.  For every task whose tool starts with VCFX_, the command  *)
(* contains $(DATA_DIR)/<input>; when args is a non-empty string and the   *)
(* tool is not VCFX_VALIDATOR_MMAP, it contains args.  The command of      *)
(* VCFX_VALIDATOR_MMAP is $(VCFX_VALIDATOR) -i <input>, whatever args is.  *)
(***************************************************************************)
C3_FirstPartyCommand ==
    LET rules == Emitted
    IN  \A r \in 1..Len(rules) :
            LET task == tasks.items[r]
                command == EmittedCommand(rules[r])
            IN  IsFirstParty(task) =>
                    /\ Contains(command, "$(DATA_DIR)/" \o task.input)
                    /\ (Get(task, "args") # "" /\ task.tool # "VCFX_VALIDATOR_MMAP")
                          => Contains(command, Get(task, "args"))
                    /\ task.tool = "VCFX_VALIDATOR_MMAP"
                          => command = "$(VCFX_VALIDATOR) -i $(DATA_DIR)/" \o task.input

\* Rules were written for a standard-input tool with args and for
\* VCFX_VALIDATOR_MMAP with args.
C3_Witness ==
    LET rules == Emitted
    IN  /\ Len(rules) = 2
        /\ \E r \in 1..2 : /\ tasks.items[r].tool = "VCFX_VALIDATOR_MMAP"
                           /\ Get(tasks.items[r], "args") # ""
        /\ \E r \in 1..2 : /\ tasks.items[r].tool = "VCFX_allele_counter"
                           /\ Get(tasks.items[r], "args") # ""
                           /\ Contains(EmittedCommand(rules[r]), "--limit 5")

(***************************************************************************)
(* C4.  As claimed: the command of a VCFTOOLS task is                      *)
(* $(VCFTOOLS) --vcf <input> <command> --stdout, of a GATK task            *)
(* $(GATK) <command> -I <input>, of a BCFTOOLS task                        *)
(* $(BCFTOOLS) <command> <input>, with <input> = $(DATA_DIR)/<task.input>  *)
(* and <command> the task's command, empty when absent.                    *)
(***************************************************************************)
C4_Claimed ==
    LET rules == Emitted
    IN  \A r \in 1..Len(rules) :
            LET task == tasks.items[r]
                input == "$(DATA_DIR)/" \o task.input
                command == IF "command" \in DOMAIN task THEN task.command ELSE ""
                got == EmittedCommand(rules[r])
            IN  /\ task.tool = "VCFTOOLS" =>
                      got = "$(VCFTOOLS) --vcf " \o input \o " " \o command \o " --stdout"
                /\ task.tool = "GATK" => got = "$(GATK) " \o command \o " -I " \o input
                /\ task.tool = "BCFTOOLS" => got = "$(BCFTOOLS) " \o command \o " " \o input

(***************************************************************************)
(* C4, amended.  The same, except that the command of a VCFTOOLS task      *)
(* ends with a redirection of standard error:                              *)
(* $(VCFTOOLS) --vcf <input> <command> --stdout 2>/dev/null.               *)
(***************************************************************************)
C4_ThirdPartyGrammar ==
    LET rules == Emitted
    IN  \A r \in 1..Len(rules) :
            LET task == tasks.items[r]
                input == "$(DATA_DIR)/" \o task.input
                command == IF "command" \in DOMAIN task THEN task.command ELSE ""
                got == EmittedCommand(rules[r])
            IN  /\ task.tool = "VCFTOOLS" =>
                      got = "$(VCFTOOLS) --vcf " \o input \o " " \o command
                            \o " --stdout 2>/dev/null"
                /\ task.tool = "GATK" => got = "$(GATK) " \o command \o " -I " \o input
                /\ task.tool = "BCFTOOLS" => got = "$(BCFTOOLS) " \o command \o " " \o input

\* Rules were written for a VCFTOOLS task with command --freq, whose command
\* contains `--freq --stdout`, and for a GATK task without a command.
C4_Witness ==
    LET rules == Emitted
    IN  /\ Len(rules) = 2
        /\ tasks.items[1].tool = "VCFTOOLS"
        /\ tasks.items[1].command = "--freq"
        /\ Contains(EmittedCommand(rules[1]), "--freq --stdout")
        /\ tasks.items[2].tool = "GATK"
        /\ "command" \notin DOMAIN tasks.items[2]

\* A tool no branch of the dispatch names.
IsUnknownTool(task) ==
    /\ task.tool # "VCFX_VALIDATOR_MMAP"
    /\ ~StartsWith(task.tool, "VCFX_")
    /\ task.tool \notin {"BCFTOOLS", "VCFTOOLS", "GATK"}

(***************************************************************************)
(* C5.  A task whose tool no dispatch branch names gets the generic        *)
(* command $(<tool>) $(DATA_DIR)/<input>, and raises nothing: a run that   *)
(* reached the rule loop ends in an exception only at a task that lacks    *)
(* one of the keys tool, name and input, and a compiled catalog has a rule *)
(* for every task after the unknown one.                                   *)
(***************************************************************************)
C5_UnknownToolGeneric ==
    LET rules == Emitted
    IN  /\ \A r \in 1..Len(rules) :
              IsUnknownTool(tasks.items[r]) =>
                  EmittedCommand(rules[r])
                      = "$(" \o tasks.items[r].tool \o ") $(DATA_DIR)/"
                        \o tasks.items[r].input
        /\ (pc = "exit" /\ exitCode # 0 /\ LineAt(stdout, "OUTPUTS := ") # 0) =>
              /\ i \in 1..Len(tasks.items)
              /\ ~({"tool", "name", "input"} \subseteq DOMAIN tasks.items[i])
        /\ Compiled => Len(rules) = Len(tasks.items)

\* A compiled catalog whose first task has an unknown tool (with args, which
\* the generic command leaves out) and whose second task got its rule too.
C5_Witness ==
    LET rules == Emitted
    IN  /\ Compiled
        /\ Len(tasks.items) = 2
        /\ IsUnknownTool(tasks.items[1])
        /\ Get(tasks.items[1], "args") # ""
        /\ Len(rules) = 2
        /\ rules[2].target = "results/" \o tasks.items[2].name \o ".csv"

\* The runtime name of a comparison tool: its identifier in lower case.
RuntimeName(tool) ==
    CASE tool = "BCFTOOLS" -> "bcftools"
      [] tool = "VCFTOOLS" -> "vcftools"
      [] tool = "GATK" -> "gatk"
      [] tool = "VCFLIB" -> "vcflib"

(***************************************************************************)
(* C6.  The tool decides the kind of the rule.  For a tool starting with   *)
(* VCFX_ the recipe is one line, the run-task call of the synthesized      *)
(* command.  For BCFTOOLS, VCFTOOLS, GATK and VCFLIB the recipe is         *)
(* conditional: it tests the tool's identifier in lower case, its success  *)
(* branch is the run-task call of the synthesized command, and its failure *)
(* branch writes a skip marker to results/<name>.csv and 0 to              *)
(* results/<name>.csv.time.                                                *)
(***************************************************************************)
C6_RuleKindByTool ==
    LET rules == Emitted
    IN  \A r \in 1..Len(rules) :
            LET task == tasks.items[r]
                recipe == rules[r].recipe
                out == "results/" \o task.name \o ".csv"
                call == "$(call run-task," \o generate_tool_command(task) \o "," \o out \o ")"
            IN  /\ IsFirstParty(task) =>
                      /\ ~IsConditionalRecipe(recipe)
                      /\ recipe = <<"\t" \o call>>
                /\ task.tool \in {"BCFTOOLS", "VCFTOOLS", "GATK", "VCFLIB"} =>
                      /\ IsConditionalRecipe(recipe)
                      /\ RecipeCheck(recipe) = RuntimeName(task.tool)
                      /\ BranchCommands(recipe, TRUE) = <<call>>
                      /\ LET skip == BranchCommands(recipe, FALSE)
                         IN  /\ Len(skip) = 2
                             /\ IsEcho(skip[1]) /\ IsEcho(skip[2])
                             /\ EchoWrite(skip[1])[1] = out
                             /\ StartsWith(EchoWrite(skip[1])[2], "Skipping " \o task.name)
                             /\ EchoWrite(skip[2]) = <<out \o ".time", "0">>

\* Rules were written for a first-party task and for a VCFTOOLS task with
\* command --freq.
C6_Witness ==
    LET rules == Emitted
    IN  /\ Len(rules) = 2
        /\ IsFirstParty(tasks.items[1])
        /\ ~IsConditionalRecipe(rules[1].recipe)
        /\ tasks.items[2].tool = "VCFTOOLS"
        /\ IsConditionalRecipe(rules[2].recipe)
        /\ RecipeCheck(rules[2].recipe) = "vcftools"

(***************************************************************************)
(* C7.  When make runs a conditional rule and the test finds no tool, no   *)
(* run-task call is made, results/<name>.csv holds the skip marker,        *)
(* results/<name>.csv.time holds 0 and the recipe ends with status 0; when *)
(* the test finds the tool, the run-task call of the rule's command is     *)
(* made and neither file is written by the recipe.  (echo into the results *)
(* directory is taken to succeed.)                                         *)
(***************************************************************************)
C7_SkipWhenAbsent ==
    \A run \in runs :
        LET task == tasks.items[run.rule]
            out == "results/" \o task.name \o ".csv"
        IN  run.conditional =>
                IF run.found
                THEN /\ run.did.ran = <<"$(call run-task," \o generate_tool_command(task)
                                        \o "," \o out \o ")">>
                     /\ run.did.writes = <<>>
                ELSE /\ run.did.ran = <<>>
                     /\ Len(run.did.writes) = 2
                     /\ run.did.writes[1][1] = out
                     /\ StartsWith(run.did.writes[1][2], "Skipping " \o task.name)
                     /\ run.did.writes[2] = <<out \o ".time", "0">>
                     /\ run.did.status = "0"

\* make ran two conditional rules: one found its tool, the other did not and
\* wrote the two placeholders.
C7_Witness ==
    \E a \in runs, b \in runs :
        /\ a.conditional /\ a.found /\ Len(a.did.ran) = 1
        /\ b.conditional /\ ~b.found /\ Len(b.did.writes) = 2

C9_Claimed ==
    LET rules == Emitted
    IN  Compiled =>
            \A r, q \in 1..Len(rules) : r # q => rules[r].target # rules[q].target

\* The first line of the document, and what its last line is when complete.
DocumentFirstLine == "# Auto-generated from tasks.yaml - do not edit manually"
DocumentLastLine == "\trm -rf results/*.csv results/*.time"

(***************************************************************************)
(* C10.  As claimed: when the process has ended, either it exited with     *)
(* status 0 and standard output holds the whole document, from its first   *)
(* line to the clean target, or it exited with another status and standard *)
(* output holds no line of the document.                                   *)
(***************************************************************************)
C10_Claimed ==
    pc = "exit" =>
        IF exitCode = 0
        THEN /\ Len(stdout) > 0
             /\ stdout[1] = DocumentFirstLine
             /\ stdout[Len(stdout)] = DocumentLastLine
        ELSE \A k \in 1..Len(stdout) : stdout[k] = "Usage: mk_tasks.py TASKS.yaml"


\* A catalog main compiles to the end: a mapping whose tasks, when it has the
\* key, are a list of tasks each holding the keys the generator subscripts.
WellFormed(c) ==
    /\ c.kind = "dict"
    /\ c.hasTasks => /\ ~c.tasksNone
                     /\ \A k \in 1..Len(c.items) : ~RaisesKeyError(c.items[k])

UsageLines == <<"Usage: mk_tasks.py TASKS.yaml">>

(***************************************************************************)
(* C11.  Started with any number of arguments other than one, the compiler *)
(* never gets to reading the catalog, and when it has ended it has printed *)
(* the usage line and nothing else and its status is 1.  Started with one  *)
(* argument that names a well-formed catalog, it ends with status 0.       *)
(***************************************************************************)
C11_ArityOrUsage ==
    /\ Len(argv) # 2 =>
          /\ pc \in {"start", "exit"}
          /\ tasks = [none |-> FALSE, items |-> <<>>]
          /\ pc = "start" => stdout = <<>>
          /\ pc = "exit" => /\ stdout = UsageLines
                            /\ exitCode = 1
                            /\ err = "SystemExit"
    /\ (Len(argv) = 2 /\ WellFormed(catalog) /\ pc = "exit") =>
          /\ exitCode = 0
          /\ err = ""

C11_Witness ==
    /\ Len(argv) = 3
    /\ catalog.kind = "dict" /\ Len(catalog.items) = MaxTasks
    /\ pc = "exit"
    /\ stdout = UsageLines


\* The places of the lines of `doc` that hold `part`, in the document's order.
LinesWith(doc, part) == Ascending({k \in 1..Len(doc) : Contains(doc[k], part)})

\* The binding the document is to hold for each registry entry, in order.
RegistryBindings ==
    [k \in 1..Len(VCFX_TOOLS) |->
        Upper(VCFX_TOOLS[k]) \o " := $(VCFX_BIN_DIR)/" \o VCFX_TOOLS[k] \o "/" \o VCFX_TOOLS[k]]

(***************************************************************************)
(* C13.  In every document main has written to the end the sections stand  *)
(* in one order: the ROOT_DIR, DATA_DIR and RESULTS_DIR bindings; then the *)
(* registry's bindings, one line <TOOL_VAR> := $(VCFX_BIN_DIR)/<tool>/<tool>*)
(* for each entry and no other, in the registry's order, <TOOL_VAR> the    *)
(* upper-cased name; then the ?= bindings of the third-party tools; then   *)
(* TASKS; then OUTPUTS; then every task rule; then `all: $(OUTPUTS)`; and  *)
(* last the clean target, whose recipe removes the .csv and .time files.   *)
(***************************************************************************)
C13_SectionOrder ==
    (Compiled /\ runs = {}) =>
        LET doc == stdout
            root == LineAt(doc, "ROOT_DIR := ")
            data == LineAt(doc, "DATA_DIR := ")
            results == LineAt(doc, "RESULTS_DIR := ")
            binds == LinesWith(doc, " := $(VCFX_BIN_DIR)/")
            third == LinesWith(SubSeq(doc, 1, LineAt(doc, "TASKS := ")), " ?= ")
            tasksAt == LineAt(doc, "TASKS := ")
            outputsAt == LineAt(doc, "OUTPUTS := ")
            ruleAts == TaskRuleAts(doc)
            allAt == LineAt(doc, "all:")
            cleanAt == LineAt(doc, "clean:")
        IN  /\ 0 < root /\ root < data /\ data < results
            /\ Len(binds) = Len(VCFX_TOOLS)
            /\ results < binds[1]
            /\ \A k \in 1..Len(binds) : /\ binds[k] = binds[1] + k - 1
                                        /\ doc[binds[k]] = RegistryBindings[k]
            /\ [k \in 1..Len(third) |-> doc[third[k]]]
                   = << "VCFX_BIN_DIR ?= $(ROOT_DIR)/build/src", "BCFTOOLS ?= bcftools",
                        "VCFTOOLS ?= vcftools", "GATK ?= gatk",
                        "VCFLIB_vcfstats ?= vcfstats", "VCFLIB_vcffilter ?= vcffilter" >>
            /\ third[1] < binds[1]
            /\ binds[Len(binds)] < third[2]
            /\ third[Len(third)] < tasksAt
            /\ tasksAt < outputsAt
            /\ Len(ruleAts) = Len(tasks.items)
            /\ \A r \in 1..Len(ruleAts) : outputsAt < ruleAts[r] /\ ruleAts[r] < allAt
            /\ outputsAt < allAt
            /\ doc[allAt] = "all: $(OUTPUTS)"
            /\ allAt < cleanAt
            /\ cleanAt = Len(doc) - 1
            /\ doc[Len(doc)] = "\trm -rf results/*.csv results/*.time"

C13_Witness ==
    /\ Compiled /\ runs = {}
    /\ Len(tasks.items) = MaxTasks
    /\ stdout[LinesWith(stdout, " := $(VCFX_BIN_DIR)/")[Len(VCFX_TOOLS)]]
          = RegistryBindings[Len(VCFX_TOOLS)]


RanTool == lastCall.fn = "run_tool"

Listed == lastCall.fn = "available_tools"

\* Discovery ran in the call: `vcfx --list` was started or PATH was scanned.
Discovered == lastCall.procs # <<>> \/ lastCall.scanned

(***************************************************************************)
(* C14.  After a call of run_tool for a tool with no executable            *)
(* VCFX_<tool> on PATH while an executable vcfx is on PATH, the call has   *)
(* not raised: it has started one process, `vcfx <tool> <args...>`, and    *)
(* returned its CompletedProcess.                                          *)
(***************************************************************************)
C14_Claimed ==
    (RanTool /\ Which(PATH, "VCFX_" \o lastCall.tool) = "" /\ Which(PATH, "vcfx") # "") =>
        LET cmd == <<Which(PATH, "vcfx"), lastCall.tool>>
                       \o [k \in 1..Len(lastCall.args) |-> Str(lastCall.args[k])]
        IN  /\ lastCall.raised # "FileNotFoundError"
            /\ lastCall.procs = <<cmd>>
            /\ lastCall.raised = "" => lastCall.completed.args = cmd

C16_RefreshHonoured ==
    Listed =>
        /\ (lastCall.cached.set /\ ~lastCall.refresh) =>
              /\ lastCall.raised = ""
              /\ lastCall.names = lastCall.cached.list
              /\ ~Discovered
              /\ cache = lastCall.cached
        /\ lastCall.refresh =>
              /\ Discovered
              /\ IF Which(PATH, "vcfx") # ""
                 THEN /\ lastCall.procs = << <<Which(PATH, "vcfx"), "--list">> >>
                      /\ ~lastCall.scanned
                 ELSE /\ lastCall.procs = <<>>
                      /\ lastCall.scanned
                      /\ lastCall.raised = "" => Range(lastCall.names) = ScanPath(PATH)
              /\ lastCall.raised = "" => cache = [set |-> TRUE, list |-> lastCall.names]

C16_Witness ==
    /\ Listed
    /\ ~lastCall.refresh
    /\ lastCall.cached.set
    /\ lastCall.stale
    /\ PATH = <<ToolsDir>>
    /\ lastCall.names = <<"sorter">>

(***************************************************************************)
(* C17.  After a call of available_tools in which discovery ran (nothing   *)
(* was cached, or refresh was True) with no executable vcfx on PATH, the   *)
(* call has raised FileNotFoundError.                                      *)
(***************************************************************************)
C17_Claimed ==
    (Listed /\ (~lastCall.cached.set \/ lastCall.refresh) /\ Which(PATH, "vcfx") = "") =>
        lastCall.raised = "FileNotFoundError"

(***************************************************************************)
(* C18.  After a call of run_tool for a name that the last call of         *)
(* available_tools returned, PATH unchanged between the two, run_tool has  *)
(* not raised FileNotFoundError and has started the tool.                  *)
(***************************************************************************)
C18_Claimed ==
    (RanTool /\ lastCall.wasListed) =>
        /\ lastCall.raised # "FileNotFoundError"
        /\ Len(lastCall.procs) = 1


(***************************************************************************)
(* scripts/build_and_publish.py: what a run has done so far.               *)
(***************************************************************************)
\* A twine upload, to whichever repository.
IsUpload(cmd) == Len(cmd) >= 4 /\ cmd[3] = "twine" /\ cmd[4] = "upload"

Uploads == {k \in 1..Len(commands) : IsUpload(commands[k].cmd)}

(***************************************************************************)
(* C19.  In a run of build_and_publish.main, an upload to PyPI has been    *)
(* started only if input() was called in this run and gave `y` or `Y`; and *)
(* when it gave anything else, the run ends with no upload started, having *)
(* printed `Aborted.` last.                                                *)
(***************************************************************************)
C19_UploadOnlyAfterYes ==
    /\ \A k \in 1..Len(commands) :
           (/\ IsUpload(commands[k].cmd)
            /\ \A a \in 1..Len(commands[k].cmd) : commands[k].cmd[a] # "--repository") =>
               /\ answer.asked
               /\ ~answer.eof
               /\ answer.text \in {"y", "Y"}
               /\ \E j \in 1..Len(printed) :
                      printed[j] = "Publish to PyPI? This cannot be undone. (y/N): "
    /\ (answer.asked /\ ~answer.eof /\ answer.text \notin {"y", "Y"}) =>
           /\ Uploads = {}
           /\ step = "exit"
           /\ status = 0
           /\ printed[Len(printed)] = "Aborted."

C19_Witness ==
    /\ step = "exit"
    /\ answer.text = "Y"
    /\ Len(commands) > 0
    /\ commands[Len(commands)] = [cmd |-> UploadCommand, returncode |-> 0]
    /\ status = 0

(***************************************************************************)
(* C20.  In a run of build_and_publish.main: with --dry-run no upload is   *)
(* ever started, whatever the other flags; every upload started comes      *)
(* after a twine check that ended with status 0; and a command that ends   *)
(* with another status is the last one run, the process ending with        *)
(* status 1.                                                               *)
(***************************************************************************)
C20_DryRunAndCheckedFirst ==
    /\ flags.dry_run => Uploads = {}
    /\ \A k \in Uploads :
           \E j \in 1..(k - 1) : commands[j] = [cmd |-> CheckCommand, returncode |-> 0]
    /\ \A k \in 1..Len(commands) :
           commands[k].returncode # 0 =>
               /\ k = Len(commands)
               /\ step = "exit"
               /\ status = 1

C20_Witness ==
    /\ flags.dry_run
    /\ flags.test
    /\ step = "exit"
    /\ status = 0
    /\ commands[Len(commands)] = [cmd |-> CheckCommand, returncode |-> 0]


(***************************************************************************)
(* C21.  In every rule written for a task whose tool starts with VCFX_:    *)
(* when the tool is VCFX_VALIDATOR_MMAP the command is                     *)
(* `$(VCFX_VALIDATOR) -i $(DATA_DIR)/<input>`; for any other such tool the *)
(* command is `$(VAR) <args> < $(DATA_DIR)/<input>` when args is not empty *)
(* and `$(VAR) < $(DATA_DIR)/<input>` when it is, VAR the upper-cased tool *)
(* name.                                                                   *)
(***************************************************************************)
C21_ValidatorAloneTakesAFile ==
    runs = {} =>
        LET rules == Emitted
        IN  \A r \in 1..Len(rules) :
                LET task == tasks.items[r]
                    command == EmittedCommand(rules[r])
                    input == "$(DATA_DIR)/" \o task.input
                    var == "$(" \o Upper(task.tool) \o ")"
                    args == Get(task, "args")
                IN  IsFirstParty(task) =>
                        IF task.tool = "VCFX_VALIDATOR_MMAP"
                        THEN command = "$(VCFX_VALIDATOR) -i " \o input
                        ELSE command = IF args # "" THEN var \o " " \o args \o " < " \o input
                                       ELSE var \o " < " \o input

\* Rules were written for the validator and for a standard-input tool with
\* args, in one document.
C21_Witness ==
    /\ Compiled /\ runs = {}
    /\ Len(tasks.items) = 2
    /\ \E r \in 1..2 :
           /\ tasks.items[r].tool = "VCFX_VALIDATOR_MMAP"
           /\ EmittedCommand(Emitted[r]) = "$(VCFX_VALIDATOR) -i $(DATA_DIR)/a.vcf"
    /\ \E r \in 1..2 :
           EmittedCommand(Emitted[r]) = "$(VCFX_ALLELE_COUNTER) --limit 5 < $(DATA_DIR)/b.vcf"


(***************************************************************************)
(* C22.  When the compiler has ended on a well-formed catalog in which the *)
(* j-th and a later k-th task have one name, it has ended with status 0    *)
(* and no exception; the name is the j-th and the k-th entry of TASKS,     *)
(* results/<name>.csv is the j-th and the k-th entry of OUTPUTS, and the   *)
(* document has one rule for each task, the j-th and, after it, the k-th   *)
(* with the target results/<name>.csv.                                     *)
(***************************************************************************)
C22_DuplicateNamesCompile ==
    (pc = "exit" /\ runs = {} /\ Len(argv) = 2 /\ WellFormed(catalog)) =>
        LET items == catalog.items
            rules == Emitted
            names == VarWords(stdout, "TASKS := ")
            outputs == VarWords(stdout, "OUTPUTS := ")
            ats == TaskRuleAts(stdout)
        IN  \A j \in 1..Len(items), k \in 1..Len(items) :
                (j < k /\ items[j].name = items[k].name) =>
                    LET out == "results/" \o items[j].name \o ".csv"
                    IN  /\ exitCode = 0
                        /\ err = ""
                        /\ Len(names) = Len(items)
                        /\ names[j] = items[j].name /\ names[k] = items[j].name
                        /\ Len(outputs) = Len(items)
                        /\ outputs[j] = out /\ outputs[k] = out
                        /\ Len(rules) = Len(items)
                        /\ rules[j].target = out /\ rules[k].target = out
                        /\ ats[j] < ats[k]

\* A document compiled from two tasks of one name and different tools.
C22_Witness ==
    /\ Compiled /\ runs = {}
    /\ Len(catalog.items) = 2
    /\ catalog.items[1].name = catalog.items[2].name
    /\ catalog.items[1].tool # catalog.items[2].tool
    /\ VarWords(stdout, "OUTPUTS := ") = <<"results/t1.csv", "results/t1.csv">>
    /\ Emitted[1].target = Emitted[2].target


\* The make variable a command starts with, `NAME` of `$(NAME) ...`: the tool
\* binary the command runs.
ToolVariable(command) ==
    IF StartsWith(command, "$(") THEN SubSeq(command, 3, Find(command, ")") - 1) ELSE ""

\* The header of the document, its lines before the TASKS binding, holds a
\* definition of the variable, `NAME := ...` or `NAME ?= ...`.
IsBound(doc, name) ==
    LET header == SubSeq(doc, 1, LineAt(doc, "TASKS := ") - 1)
    IN  LineAt(header, name \o " := ") > 0 \/ LineAt(header, name \o " ?= ") > 0

InRegistry(tool) == \E k \in 1..Len(VCFX_TOOLS) : VCFX_TOOLS[k] = tool

(***************************************************************************)
(* C23.  As claimed: in every rule written for a task whose tool is a      *)
(* registry entry, VCFX_VALIDATOR_MMAP, BCFTOOLS, VCFTOOLS, GATK or VCFLIB,*)
(* the command starts with a reference to a make variable, and the header  *)
(* of the document holds a definition of that variable.                    *)
(***************************************************************************)
C23_Claimed ==
    runs = {} =>
        LET rules == Emitted
        IN  \A r \in 1..Len(rules) :
                LET tool == tasks.items[r].tool
                    var == ToolVariable(EmittedCommand(rules[r]))
                IN  (InRegistry(tool) \/ tool = "VCFX_VALIDATOR_MMAP" \/ tool \in ComparisonTools)
                        => var # "" /\ IsBound(stdout, var)


(***************************************************************************)
(* make run on the emitted document with a variable set in its             *)
(* environment.  A `?=` definition gives its value only to a variable that *)
(* is not defined yet, and a variable of the environment is defined; a     *)
(* `:=` definition replaces what the environment gave.                     *)
(***************************************************************************)
\* The settings of the variables the header defines with ?= for the tools:
\* none, or one of them naming another build of the tool.
Settings ==
    {[name |-> "", value |-> ""]}
        \cup {[name |-> n, value |-> "/opt/" \o Lower(n) \o "/bin/" \o Lower(n)] :
                  n \in {"BCFTOOLS", "VCFTOOLS", "GATK"}}

ValueUnder(doc, setting, name) ==
    IF setting.name = name /\ name # "" /\ LineAt(doc, name \o " := ") = 0
    THEN setting.value
    ELSE VarValue(doc, name)

\* s with its variable references expanded under the setting.
RECURSIVE ExpandUnder(_, _, _)
ExpandUnder(doc, setting, s) ==
    LET open == Find(s, "$(")
    IN  IF open = 0 THEN s
        ELSE LET rest == SubSeq(s, open + 2, Len(s))
                 close == Find(rest, ")")
                 ref == SubSeq(rest, 1, close - 1)
                 value == IF StartsWith(ref, "abspath ") THEN AbsParent
                          ELSE ExpandUnder(doc, setting, ValueUnder(doc, setting, ref))
             IN  SubSeq(s, 1, open - 1) \o value
                 \o ExpandUnder(doc, setting, SubSeq(rest, close + 1, Len(rest)))

\* The executable a command runs: the first word of the command as expanded.
Invoked(doc, setting, command) == Words(ExpandUnder(doc, setting, command))[1]

\* make runs the recipe of one task rule of the compiled document, under a
\* setting of the rule's tool variable or none; `execs` are the names, of
\* the name the recipe tests and the value set, that resolve to an
\* executable at that moment.
MakeRuleUnder ==
    /\ pc = "exit"
    /\ exitCode = 0
    /\ runs = {}
    /\ LET rules == Rules(stdout)
       IN  \E r \in 1..Len(rules), setting \in Settings :
             LET recipe == rules[r].recipe
                 command == EmittedCommand(rules[r])
                 conditional == IsConditionalRecipe(recipe)
                 check == IF conditional THEN RecipeCheck(recipe) ELSE ""
             IN  /\ setting.name \in {"", ToolVariable(command)}
                 /\ \E execs \in SUBSET ({check, setting.value} \ {""}) :
                      runs' = {[rule |-> r,
                                target |-> rules[r].target,
                                conditional |-> conditional,
                                check |-> check,
                                setting |-> setting,
                                execs |-> execs,
                                found |-> check \in execs,
                                invoked |-> Invoked(stdout, setting, command),
                                did |-> RunRecipe(recipe, ~conditional \/ check \in execs)]}
    /\ UNCHANGED <<argv, catalog, pc, tasks, stdout, exitCode, err, i>>

\* The compiler is started with one argument, the catalog.
InitMake == Init /\ Len(argv) = 2

NextMake ==
    \/ CheckArgs /\ Elsewhere
    \/ Load /\ Elsewhere
    \/ PrintHeader /\ Elsewhere
    \/ PrintToolVars /\ Elsewhere
    \/ PrintComparison /\ Elsewhere
    \/ PrintTasks /\ Elsewhere
    \/ PrintOutputs /\ Elsewhere
    \/ PrintRule /\ Elsewhere
    \/ PrintFooter /\ Elsewhere
    \/ MakeRuleUnder /\ Elsewhere

SpecMake == InitMake /\ [][NextMake]_vars

(***************************************************************************)
(* C24.  As claimed: whenever make has run a conditional rule, under any   *)
(* setting of BCFTOOLS, VCFTOOLS or GATK, the success branch was taken     *)
(* only if the executable its command invokes exists, and the skip branch  *)
(* only if that executable does not exist.                                 *)
(***************************************************************************)
C24_Claimed ==
    \A run \in runs :
        run.conditional =>
            /\ run.did.ran # <<>> => run.invoked \in run.execs
            /\ run.did.ran = <<>> => run.invoked \notin run.execs


(***************************************************************************)
(* C25.  After a call of available_tools that raised FileNotFoundError,    *)
(* PATH holds no executable vcfx and no executable VCFX_* file, and        *)
(* _TOOL_CACHE is what it was when the call was made.  If a list was       *)
(* cached, the next call with refresh=False returns that list without      *)
(* discovery; if nothing was cached, nothing is cached, and the next call  *)
(* runs discovery.                                                         *)
(***************************************************************************)
C25_CacheKeptWhenNotFound ==
    /\ []((Listed /\ lastCall.raised = "FileNotFoundError") =>
              /\ Which(PATH, "vcfx") = ""
              /\ ScanPath(PATH) = {}
              /\ cache = lastCall.cached
              /\ ~lastCall.cached.set => cache = NoCache)
    /\ [][((Listed /\ lastCall.raised = "FileNotFoundError") /\ lastCall'.fn = "available_tools" /\ lastCall' # lastCall) =>
              IF lastCall.cached.set
              THEN ~lastCall'.refresh =>
                       /\ lastCall'.raised = ""
                       /\ lastCall'.names = lastCall.cached.list
                       /\ lastCall'.procs = <<>> /\ ~lastCall'.scanned
                       /\ cache' = lastCall.cached
              ELSE lastCall'.procs # <<>> \/ lastCall'.scanned]_vars

\* A refresh under a PATH with nothing on it raised, with a list cached
\* under an earlier PATH.
C25_Witness ==
    /\ Listed
    /\ lastCall.raised = "FileNotFoundError"
    /\ lastCall.refresh
    /\ lastCall.cached = [set |-> TRUE, list |-> <<"sorter", "variant_counter">>]
    /\ cache = lastCall.cached
    /\ PATH = <<GoneDir>>

====
